---------------------------- MODULE Spec2Model ----------------------------
(***************************************************************************)
(* Model of the zeus HTTP transport (transport/http): the Server's         *)
(* top-level filter, the global FilterFunc chain, the Middlewares wrapper, *)
(* Router registration (Route / Group / Handle) and the per-request path   *)
(* through a Router.Handle entry with its pooled Context.                  *)
(***************************************************************************)
EXTENDS Integers, Sequences, FiniteSets, TLC

(* ------------------------------ bounds -------------------------------- *)
MaxTicks   == 1   \* clock ticks observed while one request is in flight
MaxRouters == 3   \* routers created during registration
MaxRoutes  == 1   \* routes registered during registration
MaxEndpointCalls == 2   \* Endpoint() calls made on one Server
MaxStarts  == 2   \* Start() calls made on one Server

Conns == {1, 2}    \* the connections; each serves one request at a time

(* ------------------------------ values -------------------------------- *)
Nil == "nil"                     \* Go nil (pointer, interface or error)
MwNames == {"A", "B", "C"}       \* middleware.Middleware values given to Route/Group/Handle
Timeouts == {-1, 0, 1}           \* values of the Timeout option (time.Duration is signed)
FilterLists == {<<>>, <<"F1", "F2">>}  \* values of the Filter option
CustomOp == <<"custom", "op">>   \* an operation written by SetOperation in a handler

VARIABLES
    timeout,    \* Server.timeout
    filters,    \* Server.filters: the FilterFuncs given to the Filter option
    gmws,       \* the middleware given to Middlewares(...), <<>> when not installed
    useMws,     \* whether Engine().Use(Middlewares(gmws...)) was installed
    reg,        \* registration state: routers and routes (Route/Group/Handle)
    live,       \* the connections that are accepting requests
    wrappers,   \* the heap of *wrapper instances: id -> fields
    pool,       \* Router.pool per router: the set of instance ids in the pool
    req,        \* per connection: the request in flight and its position
    srv         \* the Server's listener, endpoint, stored error and Start/Stop state

vars == <<timeout, filters, gmws, useMws, reg, live, wrappers, pool, req, srv>>

(* ---------------------- registration (router.go) ---------------------- *)

\* path.Join of two clean paths, a path being its sequence of segments.
PathJoin(a, b) == a \o b

\* newRouter: the Router struct without its pool (kept in the variable pool).
newRouter(prefix, fs) == [prefix |-> prefix, filters |-> fs]

\* A Group that puts its own middleware before the parent's.
GroupFilters_prepend(parentFilters, fs) == fs \o parentFilters

\* Router.Group: newFilters = append(append(nil, r.filters...), filters...).
GroupFilters(parentFilters, fs) == parentFilters \o fs

Router_Group(r, prefix, fs) ==
    newRouter(PathJoin(r.prefix, prefix), GroupFilters(r.filters, fs))

\* A Handle that puts the route's middleware before the router's.
HandleMs_routeFirst(r, fs) == fs \o r.filters

\* Router.Handle, request time: ms = append(append(ms, r.filters...), filters...).
HandleMs(r, fs) == r.filters \o fs

EmptyReg == [routers |-> <<>>, routes |-> <<>>, given |-> <<>>, parent |-> <<>>]

\* Server.Route(prefix, ms...): a root router.  given/parent record, for each
\* router, the middleware its creating call was given and the router it was
\* grouped from (0 for a root).
RegRoute(g, prefix, ms) ==
    [g EXCEPT !.routers = Append(@, newRouter(prefix, ms)),
              !.given   = Append(@, ms),
              !.parent  = Append(@, 0)]

\* A Group that appends its middleware to the parent's own list as well
\* (r.filters = append(r.filters, filters...)).
RegGroup_aliasParent(g, p, prefix, fs) ==
    [g EXCEPT !.routers = Append([@ EXCEPT ![p].filters = @ \o fs],
                                 Router_Group(g.routers[p], prefix, fs)),
              !.given   = Append(@, fs),
              !.parent  = Append(@, p)]

\* Router.Group on router p: the new router is added; nothing else is written.
RegGroup(g, p, prefix, fs) ==
    [g EXCEPT !.routers = Append(@, Router_Group(g.routers[p], prefix, fs)),
              !.given   = Append(@, fs),
              !.parent  = Append(@, p)]

\* Router.Handle, registration time: engine.Handle(method, path.Join(prefix, rel), next);
\* the closure next captures the router r, the handler h and filters.
RegHandle(g, r, rel, h, fs) ==
    [g EXCEPT !.routes = Append(@, [router  |-> r,
                                    path    |-> PathJoin(g.routers[r].prefix, rel),
                                    h       |-> h,
                                    filters |-> fs])]

\* The chain a request on route rt runs (computed by next at request time).
RouteMs(g, rt) == HandleMs(g.routers[rt.router], rt.filters)

(* ------------------------- handlers (inputs) -------------------------- *)

\* A HandlerFunc is given by the calls it makes on its Context, in order, and
\* by what it returns: nil, an error of its own ("err"), the value the last
\* call returned ("last", as in `return ctx.Result(200, v)`), or a panic.
Prog(h) ==
    CASE h = "ok"      -> [ops |-> <<"result">>,                  out |-> "last"]
      [] h = "fail"    -> [ops |-> <<>>,                          out |-> "err"]
      [] h = "both"    -> [ops |-> <<"result">>,                  out |-> "err"]
      [] h = "encfail" -> [ops |-> <<"resultfail">>,              out |-> "last"]
      [] h = "reterr"  -> [ops |-> <<"returnserr">>,              out |-> "last"]
      [] h = "silent"  -> [ops |-> <<>>,                          out |-> "nil"]
      [] h = "boom"    -> [ops |-> <<>>,                          out |-> "panic"]
      [] h = "sel"     -> [ops |-> <<"mw", "returns">>,           out |-> "last"]
      [] h = "setsel"  -> [ops |-> <<"setop", "mw", "returns">>,  out |-> "last"]
      [] h = "wait"    -> [ops |-> <<"observe", "observe">>,      out |-> "nil"]
      [] h = "empty"   -> [ops |-> <<"resultempty">>,             out |-> "last"]
      [] h = "json"    -> [ops |-> <<"json">>,                    out |-> "last"]

Handlers == {"ok", "fail", "both", "encfail", "reterr", "silent", "boom",
             "sel", "setsel", "wait", "empty", "json"}

RECURSIVE RegHandles(_, _, _, _)
\* r.GET(<h>/:id, h, fs...) for each handler name of hs, in order.
RegHandles(g, r, hs, fs) ==
    IF hs = <<>> THEN g
    ELSE RegHandles(RegHandle(g, r, <<Head(hs), ":id">>, Head(hs), fs), r, Tail(hs), fs)

\* The routing table the serving specification starts from:
\*   root := srv.Route("/");  api := srv.Route("/api", A);  v1 := api.Group("/v1", B)
\*   root.GET("/ping", ok);  api.GET("/users/:id", sel)
\*   v1.GET("/<h>/:id", h, C) for every handler h
Fixture ==
    LET g1 == RegRoute(EmptyReg, <<>>, <<>>)
        g2 == RegRoute(g1, <<"api">>, <<"A">>)
        g3 == RegGroup(g2, 2, <<"v1">>, <<"B">>)
        g4 == RegHandle(g3, 1, <<"ping">>, "ok", <<>>)
        g5 == RegHandle(g4, 2, <<"users", ":id">>, "sel", <<>>)
    IN  RegHandles(g5, 3, <<"ok", "fail", "both", "encfail", "reterr", "silent",
                            "boom", "sel", "setsel", "wait", "empty", "json">>, <<"C">>)

\* The routing table of the concurrency specification: one router, so one pool.
\*   api := srv.Route("/api", A);  api.GET("/ok/:id", ok)
FixtureConc ==
    RegHandles(RegRoute(EmptyReg, <<"api">>, <<"A">>), 1, <<"ok">>, <<>>)

\* c.FullPath(): the matched route's template, "" when no route matched (route 0).
FullPath(g, rt) == IF rt = 0 THEN <<>> ELSE g.routes[rt].path

\* c.Request.URL.Path: the template with its parameter filled in.
UrlPath(g, rt) ==
    LET p == FullPath(g, rt)
    IN  IF rt = 0 THEN <<"missing">>
        ELSE [i \in DOMAIN p |-> IF p[i] = ":id" THEN "42" ELSE p[i]]

(* ------------------- requests, contexts, transport -------------------- *)

\* An *http.Request value: the connection it arrived on and the layers its
\* context carries ("derived": the filter's WithTimeout/WithCancel context,
\* "tr": the transport record, "gin": the gin context of Middlewares).
NilReq == [conn |-> 0, ctx |-> {}]

\* The filter's derived context (NoCtx before the filter ran).
NoCtx == [derived |-> FALSE, hasDeadline |-> FALSE, deadline |-> 0, canceled |-> FALSE]

\* A filter that takes WithTimeout for a zero timeout too.
filter_derive_zero(t) ==
    [derived |-> TRUE, hasDeadline |-> t >= 0, deadline |-> t, canceled |-> FALSE]

\* Server.filter: WithTimeout when s.timeout > 0, WithCancel otherwise.
filter_derive(t) ==
    [derived |-> TRUE, hasDeadline |-> t > 0, deadline |-> t, canceled |-> FALSE]

\* cancel(): the CancelFunc of the derived context.
cancel(d) == [d EXCEPT !.canceled = TRUE]

\* A filter that calls cancel() after c.Next() instead of deferring it.
filter_exit_nodefer(d, panicking) == IF panicking THEN d ELSE cancel(d)

\* Server.filter's `defer cancel()`: runs when the filter returns and when a
\* panic unwinds through it.
filter_exit(d, panicking) == cancel(d)

\* A filter that puts the derived context on the request without the record.
filter_request_noTr(rq) == [rq EXCEPT !.ctx = @ \cup {"derived"}]

\* Server.filter: c.Request = c.Request.WithContext(NewServerContext(ctx, tr)).
filter_request(rq) == [rq EXCEPT !.ctx = @ \cup {"derived", "tr"}]

\* ctx.Err() # nil of the derived context after `elapsed` ticks.
DerivedErr(d, elapsed) ==
    d.canceled \/ (d.hasDeadline /\ elapsed >= d.deadline)

\* A Start that leaves net/http's default base context in place.
Server_BaseContext_background(s) == {}

\* s.BaseContext = func(net.Listener) context.Context { return ctx }: the
\* context of every request served by Start's Serve descends from ctx; a
\* request handed to ServeHTTP without Start carries no such layer.
Server_BaseContext(s) == IF s.served THEN {"base"} ELSE {}

\* ctx.Err() # nil of the context of request rq: its own derived layer, or
\* the base context it descends from, is canceled.
CtxErr(rq, d, elapsed) ==
    \/ "derived" \in rq.ctx /\ DerivedErr(d, elapsed)
    \/ "base" \in rq.ctx /\ srv.ctxCanceled

\* The *Transport record (NoTr before the filter ran).
NoTr == [operation |-> <<>>, pathTemplate |-> <<>>]

(* ----------------------- wrapper (context.go) ------------------------- *)

StatusOK == 200                  \* http.StatusOK
StatusBadRequest == 400          \* http.StatusBadRequest
StatusNotFound == StatusBadRequest + 4
ErrorStatus == StatusBadRequest + 100   \* the status the error encoder writes
ResultCode == StatusOK + 1       \* the code a handler passes to Result

Insts == {1, 2, 3}               \* addresses of *wrapper instances: one more than connections

\* An address that holds no live wrapper.
Unalloc == [router |-> 0, req |-> NilReq, res |-> 0, ww |-> 0, wcode |-> 0, gin |-> 0]

\* pool.New: &wrapper{router: r}.
NewWrapper(r) == [router |-> r, req |-> NilReq, res |-> 0, ww |-> 0, wcode |-> 0, gin |-> 0]

\* wrapper.Reset(res, req): c.w.reset(res) (w.w = res, w.code = 200); c.res = res; c.req = req.
wrapper_Reset(w, res, rq) == [w EXCEPT !.ww = res, !.wcode = StatusOK, !.res = res, !.req = rq]

\* What `next` does to the instance it got: ctx.Context = c; ctx.Reset(c.Writer, c.Request).
RouteAcquire(w, c, rq) == [wrapper_Reset(w, c, rq) EXCEPT !.gin = c]

\* A `next` that forgets ctx.Reset(nil, nil) before pool.Put.
RouteClear_noReset(w) == [w EXCEPT !.gin = 0]

\* What `next` does before pool.Put: ctx.Reset(nil, nil); ctx.Context = nil.
RouteClear(w) == [wrapper_Reset(w, 0, NilReq) EXCEPT !.gin = 0]

\* A Get that leaves the instance it returns in the pool.
PoolAfterGet_keep(p, i) == p

\* sync.Pool.Get removes the instance it returns from the pool.
PoolAfterGet(p, i) == p \ {i}

\* sync.Pool.Put.
PoolAfterPut(p, i) == p \cup {i}

\* wrapper.Err() # nil: context.Canceled when c.req is nil, else the error of
\* c.req.Context(), which is the derived context when the request carries it.
wrapper_Err(w, d, elapsed) ==
    IF w.req = NilReq THEN TRUE ELSE CtxErr(w.req, d, elapsed)

\* A Middleware that always matches on the URL path.
wrapper_MiddlewareKey_path(w, t, url) == url

\* wrapper.Middleware: the key handed to srv.middleware.Match: tr.Operation()
\* when transport.FromServerContext(c.req.Context()) finds a record, else
\* c.req.URL.Path.
wrapper_MiddlewareKey(w, t, url) ==
    IF "tr" \in w.req.ctx THEN t.operation ELSE url

\* SetOperation(ctx, op): writes the operation of the record ctx carries, if any.
SetOperation(rq, t, op) ==
    IF "tr" \in rq.ctx THEN [t EXCEPT !.operation = op] ELSE t

\* responseWriter.Write on the status buffer: w.w.WriteHeader(w.code); w.w.Write(data).
responseWriter_Write(wire, code) == wire \o << <<"hdr", code>>, <<"body", 0>> >>

\* The default error encoder: WriteHeader(code of the error), Write(body), on c.Writer.
ene_Write(wire) == wire \o << <<"hdr", ErrorStatus>>, <<"body", 0>> >>

(* --------------------- server lifecycle (server.go) ------------------- *)

ErrServerClosed == "http: Server closed"   \* http.ErrServerClosed

NoLis == <<>>        \* s.lis == nil
NoEndpoint == <<>>   \* s.endpoint == nil

\* The Server after NewServer, with the listener of the Listener option (NoLis
\* without it).  binds, urls, epCalls, epRet and starts are history:
\* net.Listen calls that bound a listener, URLs returned by successful
\* Endpoint calls, the Endpoint calls made, the error the last of them
\* returned, and the Start calls made.
NewSrv(lis) ==
    [lis         |-> lis,
     endpoint    |-> NoEndpoint,
     err         |-> Nil,          \* s.err
     phase       |-> "new",        \* of Start: "new", "serving", "returned"
     served      |-> FALSE,        \* the current Start called Serve
     laeRet      |-> Nil,          \* what listenAndEndpoint returned to the current Start
     serveErr    |-> Nil,          \* what Serve returned
     startRet    |-> Nil,          \* what Start returned
     shut        |-> FALSE,        \* Shutdown was called
     ctxCanceled |-> FALSE,        \* the context given to Start is canceled
     binds       |-> 0,
     urls        |-> {},
     epCalls     |-> 0,
     epRet       |-> Nil,
     starts      |-> 0]

\* A listenAndEndpoint that listens on every call.
needListen_always(s) == TRUE

\* listenAndEndpoint: `if s.lis == nil`.
needListen(s) == s.lis = NoLis

\* A listenAndEndpoint that returns nil when this call listened and resolved.
listenAndEndpoint_ret_nil(s) == Nil

\* listenAndEndpoint when neither step failed in this call: `return s.err`.
listenAndEndpoint_ret(s) == s.err

\* listenAndEndpoint, given whether net.Listen and host.Extract succeed when
\* called: the Server afterwards and the error returned.
listenAndEndpoint(s, listenOk, extractOk) ==
    IF needListen(s) /\ ~listenOk
    THEN [s |-> [s EXCEPT !.err = "listen"], ret |-> "listen"]
    ELSE LET s1 == IF needListen(s)
                   THEN [s EXCEPT !.lis = <<"bound", s.binds + 1>>, !.binds = @ + 1]
                   ELSE s
         IN  IF s1.endpoint = NoEndpoint /\ ~extractOk
             THEN [s |-> [s1 EXCEPT !.err = "extract"], ret |-> "extract"]
             ELSE [s   |-> IF s1.endpoint = NoEndpoint
                           THEN [s1 EXCEPT !.endpoint = <<"http", s1.lis>>]
                           ELSE s1,
                   ret |-> listenAndEndpoint_ret(s1)]

\* Server.Endpoint.
Server_Endpoint(s, listenOk, extractOk) ==
    LET r == listenAndEndpoint(s, listenOk, extractOk)
    IN  [r.s EXCEPT !.epCalls = @ + 1,
                    !.epRet = r.ret,
                    !.urls = IF r.ret = Nil THEN @ \cup {r.s.endpoint} ELSE @]

\* Server.Start up to the Serve call: listenAndEndpoint, its error returned
\* at once; else BaseContext is set and Serve is called.
Server_StartCall(s, listenOk, extractOk) ==
    LET r == listenAndEndpoint(s, listenOk, extractOk)
    IN  IF r.ret # Nil
        THEN [r.s EXCEPT !.phase = "returned", !.served = FALSE, !.laeRet = r.ret,
                         !.serveErr = Nil, !.startRet = r.ret, !.starts = @ + 1]
        ELSE [r.s EXCEPT !.phase = "serving", !.served = TRUE, !.laeRet = Nil,
                         !.serveErr = Nil, !.startRet = Nil, !.starts = @ + 1]

\* A Start that returns whatever Serve returned.
Start_result_raw(err) == err

\* Server.Start after Serve returned err:
\* if !errors.Is(err, http.ErrServerClosed) { return err }; return nil.
Start_result(err) == IF err = ErrServerClosed THEN Nil ELSE err

\* Serve returned err, and Start with it.
Server_ServeReturn(s, err) ==
    [s EXCEPT !.phase = "returned", !.serveErr = err, !.startRet = Start_result(err)]

\* A Serve that does not notice Shutdown.
Serve_closed_never(s) == FALSE

\* Serve returns http.ErrServerClosed once Shutdown has been called (before
\* or while it runs).
Serve_closed(s) == s.shut

\* A Server serving under Start on a listener it bound itself.
SrvServing == Server_StartCall(NewSrv(NoLis), TRUE, TRUE)

(* ------------------------- per-connection state ----------------------- *)

IdleReq ==
    [pc      |-> "idle",  \* position of the goroutine serving the connection
     route   |-> 0,       \* the route the engine matched (0: none)
     request |-> NilReq,  \* c.Request
     gi      |-> 0,       \* FilterFuncs entered and not yet returned
     gj      |-> 0,       \* Middlewares(...) middleware entered and not yet returned
     mi      |-> 0,       \* router/route middleware entered and not yet returned
     cc      |-> {},      \* layers of the context handed down the route's chain
     k       |-> 0,       \* calls the handler has made
     inNext  |-> FALSE,   \* the route ran inside Middlewares' c.Next()
     dctx    |-> NoCtx,   \* the filter's derived context
     elapsed |-> 0,       \* ticks since the request entered the filter
     tr      |-> NoTr,    \* the transport record
     ntr     |-> 0,       \* transport records created and attached
     inst    |-> 0,       \* the wrapper instance `next` got from the pool
     owns    |-> FALSE,   \* between pool.Get and pool.Put
     puts    |-> 0,       \* pool.Put calls made for this request
     last    |-> Nil,     \* what the handler's last Context call returned
     herr    |-> Nil,     \* what the handler returned
     ret     |-> Nil,     \* the error travelling back through the chain
     enc     |-> 0,       \* calls of the response encoder
     ene     |-> 0,       \* calls of the error encoder
     status  |-> 0,       \* c.Writer.Status()
     wire    |-> <<>>,    \* WriteHeader/Write calls that reached c.Writer
     asked   |-> <<>>,    \* status codes of the writing calls that returned nil
     ginErrs |-> 0,       \* c.Error calls
     matched |-> <<>>,    \* keys handed to Match by Context.Middleware
     opAt    |-> <<>>,    \* the request's record at each of those calls
     obs     |-> <<>>,    \* what the handler saw of ctx.Err(), and when
     trace   |-> <<>>,    \* entries and exits, in order
     outcome |-> Nil]     \* "ok" or "panic" once the request is over

Push(q, e) == Append(q.trace, e)

\* Where gin goes on after the route's handler returned.
AfterRoute(q) == IF q.inNext THEN "gnext_out" ELSE "filter_out"

InitServing(fx, conns) ==
    /\ reg = fx
    /\ live = conns
    /\ wrappers = [i \in Insts |-> Unalloc]
    /\ pool = [r \in DOMAIN fx.routers |-> {}]
    /\ req = [c \in Conns |-> IdleReq]
    /\ srv = IF conns = {} THEN NewSrv(NoLis) ELSE SrvServing

\* One connection, served request after request, under every option value.
Init ==
    /\ timeout \in Timeouts
    /\ filters \in FilterLists
    /\ useMws \in BOOLEAN
    /\ gmws = IF useMws THEN <<"G">> ELSE <<>>
    /\ InitServing(Fixture, {1})

\* All connections at once, on one router.
InitConc ==
    /\ timeout = 0
    /\ filters = <<>>
    /\ useMws = FALSE
    /\ gmws = <<>>
    /\ InitServing(FixtureConc, Conns)

\* After NewServer, before any registration.
InitReg ==
    /\ timeout = 1
    /\ filters = <<>>
    /\ useMws = FALSE
    /\ gmws = <<>>
    /\ InitServing(EmptyReg, {})

cfgvars == <<timeout, filters, gmws, useMws, reg, live, srv>>

(* ------------------------ the request pipeline ------------------------ *)

\* An http.Handler is the sequence of the layers a request passes through,
\* outermost first; a FilterFunc f applied to handler next is <<f>> \o next.
RECURSIVE FilterChain_up(_, _, _)
FilterChain_up(fs, i, next) ==
    IF i > Len(fs) THEN next ELSE FilterChain_up(fs, i + 1, <<fs[i]>> \o next)

\* A FilterChain whose loop runs from the first filter to the last.
FilterChain_innerFirst(fs, h) == FilterChain_up(fs, 1, h)

RECURSIVE FilterChain_down(_, _, _)
\* for i := len(filters) - 1; i >= 0; i-- { next = filters[i](next) }
FilterChain_down(fs, i, next) ==
    IF i < 1 THEN next ELSE FilterChain_down(fs, i - 1, <<fs[i]>> \o next)

\* FilterChain(filters...)(h).
FilterChain(fs, h) == FilterChain_down(fs, Len(fs), h)

\* NewServer: Handler: FilterChain(srv.filters...)(srv.engine).
ServerHandler == FilterChain(filters, <<"engine">>)

\* A request arrives on connection c; the engine will match route rt (0: no
\* route, for which gin presets the 404 status before running the handlers).
Begin(c) ==
    /\ c \in live
    /\ req[c].pc = "idle"
    /\ \E rt \in 0..Len(reg.routes) :
          req' = [req EXCEPT ![c] =
                    [IdleReq EXCEPT !.pc = "gf", !.route = rt,
                                    !.request = [conn |-> c, ctx |-> Server_BaseContext(srv)],
                                    !.status = IF rt = 0 THEN StatusNotFound ELSE StatusOK]]
    /\ UNCHANGED <<cfgvars, wrappers, pool>>

\* FilterChain(srv.filters...)(srv.engine): the next FilterFunc runs; it calls
\* next, or answers the request itself and returns.
GlobalFilterEnter(c) ==
    LET q == req[c] IN
    /\ q.pc = "gf"
    /\ ServerHandler[q.gi + 1] # "engine"
    /\ LET f == ServerHandler[q.gi + 1] IN
       \/ req' = [req EXCEPT ![c] = [q EXCEPT !.gi = @ + 1, !.trace = Push(q, <<"in", f>>)]]
       \/ req' = [req EXCEPT ![c] =
                    [q EXCEPT !.pc = "gf_out",
                              !.trace = Push(q, <<"in", f>>) \o << <<"out", f>> >>]]
    /\ UNCHANGED <<cfgvars, wrappers, pool>>

\* Server.filter up to c.Next(): derive the context, create the Transport,
\* attach it: c.Request = c.Request.WithContext(NewServerContext(ctx, tr)).
FilterEnter(c) ==
    LET q == req[c] IN
    /\ q.pc = "gf"
    /\ ServerHandler[q.gi + 1] = "engine"
    /\ req' = [req EXCEPT ![c] =
                 [q EXCEPT !.pc = IF useMws THEN "mws" ELSE "route",
                           !.dctx = filter_derive(timeout),
                           !.elapsed = 0,
                           !.tr = [operation    |-> FullPath(reg, q.route),
                                   pathTemplate |-> FullPath(reg, q.route)],
                           !.ntr = @ + 1,
                           !.request = filter_request(q.request),
                           !.trace = Push(q, <<"in", "filter">>)]]
    /\ UNCHANGED <<cfgvars, wrappers, pool>>

\* Middlewares(m...) up to the call of the chain: NewGinContext, then
\* SetOperation(ctx, ginCtx.FullPath()).
MiddlewaresEnter(c) ==
    LET q  == req[c]
        rq == [conn |-> c, ctx |-> q.request.ctx \cup {"gin"}]
    IN
    /\ q.pc = "mws"
    /\ req' = [req EXCEPT ![c] =
                 [q EXCEPT !.pc = "gmw",
                           !.request = rq,
                           !.tr = SetOperation(rq, q.tr, FullPath(reg, q.route)),
                           !.trace = Push(q, <<"in", "mws">>)]]
    /\ UNCHANGED <<cfgvars, wrappers, pool>>

\* The next middleware of Middlewares' chain runs; it calls next, or returns
\* an error without calling it.
GlobalMwEnter(c) ==
    LET q == req[c] IN
    /\ q.pc = "gmw"
    /\ q.gj < Len(gmws)
    /\ LET m == gmws[q.gj + 1] IN
       \/ req' = [req EXCEPT ![c] = [q EXCEPT !.gj = @ + 1, !.trace = Push(q, <<"in", m>>)]]
       \/ req' = [req EXCEPT ![c] =
                    [q EXCEPT !.pc = "gmw_out", !.ret = "err",
                              !.trace = Push(q, <<"in", m>>) \o << <<"out", m>> >>]]
    /\ UNCHANGED <<cfgvars, wrappers, pool>>

\* Middlewares' innermost step calls c.Next(): gin runs the handlers that follow.
GNext(c) ==
    LET q == req[c] IN
    /\ q.pc = "gmw"
    /\ q.gj = Len(gmws)
    /\ req' = [req EXCEPT ![c] = [q EXCEPT !.pc = "route", !.inNext = TRUE]]
    /\ UNCHANGED <<cfgvars, wrappers, pool>>

\* No route matched: gin's 404 handler chain has nothing more to run.
NoRoute(c) ==
    LET q == req[c] IN
    /\ q.pc = "route"
    /\ q.route = 0
    /\ req' = [req EXCEPT ![c] = [q EXCEPT !.pc = AfterRoute(q)]]
    /\ UNCHANGED <<cfgvars, wrappers, pool>>

\* The instances some request holds between pool.Get and pool.Put.
Owned == {req[c].inst : c \in {d \in Conns : req[d].owns}}

\* The address pool.New's allocation returns (the heap has room for one
\* instance more than there are connections): one that holds no live wrapper,
\* or else one of an instance a pool has dropped since it was put (sync.Pool
\* may drop what it holds at any time; nothing sees that before the next Get).
NewAddrs ==
    LET heap == 1..(Cardinality(live) + 1)
        free == {i \in heap : wrappers[i] = Unalloc}
        cand == IF free # {} THEN free ELSE heap \ Owned
    IN  {i \in cand : \A j \in cand : i <= j}

\* Router.Handle's `next` up to the call of the chain: pool.Get (an instance
\* of the pool, or a new one from pool.New), ctx.Context = c, ctx.Reset.
RouteEnter(c) ==
    LET q == req[c]
        r == reg.routes[q.route].router
    IN
    /\ q.pc = "route"
    /\ q.route # 0
    /\ \E i \in Insts :
          /\ \/ /\ i \in pool[r]
                /\ wrappers' = [wrappers EXCEPT ![i] = RouteAcquire(@, c, q.request)]
             \/ /\ i \in NewAddrs
                /\ wrappers' = [wrappers EXCEPT ![i] = RouteAcquire(NewWrapper(r), c, q.request)]
          /\ pool' = [p \in DOMAIN pool |-> PoolAfterGet(pool[p], i)]
          /\ req' = [req EXCEPT ![c] =
                       [q EXCEPT !.pc = "mw", !.inst = i, !.owns = TRUE, !.mi = 0,
                                 !.cc = q.request.ctx,
                                 !.trace = Push(q, <<"in", "route">>)]]
    /\ UNCHANGED cfgvars

\* The chain of `next`: ms = r.filters ++ filters.
Ms(q) == RouteMs(reg, reg.routes[q.route])

\* middleware.Chain(ms...)(nt), called as nt(c.Request.Context(), c.Request):
\* the next middleware of the route's chain runs; it calls next with a context
\* derived from the one it was given (a value or a deadline of its own added),
\* returns an error without calling next, or panics.
MiddlewareEnter(c) ==
    LET q == req[c] IN
    /\ q.pc = "mw"
    /\ q.mi < Len(Ms(q))
    /\ LET m == Ms(q)[q.mi + 1] IN
       \/ req' = [req EXCEPT ![c] = [q EXCEPT !.mi = @ + 1, !.cc = @ \cup {m},
                                              !.trace = Push(q, <<"in", m>>)]]
       \/ req' = [req EXCEPT ![c] =
                    [q EXCEPT !.pc = "mw_out", !.ret = "err",
                              !.trace = Push(q, <<"in", m>>) \o << <<"out", m>> >>]]
       \/ req' = [req EXCEPT ![c] =
                    [q EXCEPT !.pc = "panic", !.mi = @ + 1, !.trace = Push(q, <<"in", m>>)]]
    /\ UNCHANGED <<cfgvars, wrappers, pool>>

\* A terminal step that gives the handler the context the chain handed down.
nt_ctx_chain(cc, w) == cc

\* nt = func(cc context.Context, req interface{}): cc is not used; h gets ctx,
\* the wrapper, whose Deadline/Done/Err/Value read c.req.Context().
nt_ctx(cc, w) == w.req.ctx

\* The terminal step nt calls h(ctx).
HandlerCall(c) ==
    LET q == req[c] IN
    /\ q.pc = "mw"
    /\ q.mi = Len(Ms(q))
    /\ req' = [req EXCEPT ![c] = [q EXCEPT !.pc = "h", !.k = 0, !.trace = Push(q, <<"in", "h">>)]]
    /\ UNCHANGED <<cfgvars, wrappers, pool>>

\* wrapper.Result(code, v): c.w.WriteHeader(code), which only stores the code
\* in the status buffer, then enc(&c.w, c.req, v).  The encoder (the
\* ResponseEncoder option's function) calls Write on the status buffer
\* ("writes"), fails before writing ("fails"), or returns nil without a Write
\* call, having no body to send ("nothing").
wrapper_Result(q, w, code, encDoes) ==
    [q EXCEPT !.enc  = @ + 1,
              !.wire = IF encDoes = "writes" THEN responseWriter_Write(@, code) ELSE @,
              !.status = IF encDoes = "writes" THEN code ELSE @,
              !.asked = IF encDoes = "fails" THEN @ ELSE Append(@, code),
              !.last = IF encDoes = "fails" THEN "err" ELSE Nil]

\* wrapper.JSON / XML / String / Blob / Stream: c.res.WriteHeader(code), then
\* the body is written to c.res.
wrapper_JSON(q, code) ==
    [q EXCEPT !.wire = @ \o << <<"hdr", code>>, <<"body", 0>> >>,
              !.status = code,
              !.asked = Append(@, code),
              !.last = Nil]

\* wrapper.Returns(v, err): err when it is not nil, else enc(&c.w, c.req, v).
wrapper_Returns(q, w, err) ==
    IF err # Nil THEN [q EXCEPT !.last = err]
    ELSE [q EXCEPT !.enc  = @ + 1,
                   !.wire = responseWriter_Write(@, w.wcode),
                   !.status = w.wcode,
                   !.asked = Append(@, w.wcode),
                   !.last = Nil]

\* The handler's call number k+1 on its Context (the wrapper instance it was given).
HandlerOp(c) ==
    LET q  == req[c]
        w  == wrappers[q.inst]
        h  == reg.routes[q.route].h
        op == Prog(h).ops[q.k + 1]
        q1 == [q EXCEPT !.k = @ + 1]
    IN
    /\ q.pc = "h"
    /\ q.k < Len(Prog(h).ops)
    /\ CASE op = "result" ->
              /\ wrappers' = [wrappers EXCEPT ![q.inst].wcode = ResultCode]
              /\ req' = [req EXCEPT ![c] = wrapper_Result(q1, w, ResultCode, "writes")]
         [] op = "resultfail" ->
              /\ wrappers' = [wrappers EXCEPT ![q.inst].wcode = ResultCode]
              /\ req' = [req EXCEPT ![c] = wrapper_Result(q1, w, ResultCode, "fails")]
         [] op = "resultempty" ->
              /\ wrappers' = [wrappers EXCEPT ![q.inst].wcode = ResultCode]
              /\ req' = [req EXCEPT ![c] = wrapper_Result(q1, w, ResultCode, "nothing")]
         [] op = "json" ->
              /\ wrappers' = wrappers
              /\ req' = [req EXCEPT ![c] = wrapper_JSON(q1, ResultCode)]
         [] op = "returns" ->
              /\ wrappers' = wrappers
              /\ req' = [req EXCEPT ![c] = wrapper_Returns(q1, w, Nil)]
         [] op = "returnserr" ->
              /\ wrappers' = wrappers
              /\ req' = [req EXCEPT ![c] = wrapper_Returns(q1, w, "err")]
         [] op = "mw" ->
              /\ wrappers' = wrappers
              /\ req' = [req EXCEPT ![c] =
                    [q1 EXCEPT !.matched = Append(@, wrapper_MiddlewareKey(
                                              w, req[w.req.conn].tr, UrlPath(reg, q.route))),
                               !.opAt = Append(@, [op    |-> q.tr.operation,
                                                   hasTr |-> "tr" \in w.req.ctx])]]
         [] op = "setop" ->
              /\ wrappers' = wrappers
              /\ req' = [req EXCEPT ![c] = [q1 EXCEPT !.tr = SetOperation(w.req, @, CustomOp)]]
         [] op = "observe" ->
              /\ wrappers' = wrappers
              /\ req' = [req EXCEPT ![c] =
                    [q1 EXCEPT !.obs = Append(@, [at   |-> q.elapsed,
                                                  base |-> srv.ctxCanceled,
                                                  seen |-> nt_ctx(q.cc, w),
                                                  err  |-> wrapper_Err(w, q.dctx, q.elapsed)])]]
    /\ UNCHANGED <<cfgvars, pool>>

\* What the handler returns: "panic", or its error value.
HandlerOut(q) ==
    LET out == Prog(reg.routes[q.route].h).out IN
    IF out = "last" THEN q.last ELSE IF out = "nil" THEN Nil ELSE out

\* An nt that leaves the error to its caller and never calls the error encoder.
nt_return_noEne(q, err) ==
    [q EXCEPT !.pc = "mw_out", !.herr = err, !.ret = err,
              !.trace = Push(q, <<"out", "h">>)]

\* nt after h(ctx) returned err: if err != nil, r.srv.ene(c.Writer, c.Request, err);
\* return c.Writer, err.
nt_return(q, err) ==
    [q EXCEPT !.pc = "mw_out", !.herr = err, !.ret = err,
              !.ene = IF err # Nil THEN @ + 1 ELSE @,
              !.wire = IF err # Nil THEN ene_Write(@) ELSE @,
              !.status = IF err # Nil THEN ErrorStatus ELSE @,
              !.trace = Push(q, <<"out", "h">>)]

\* h returns (and nt with it), or panics.
HandlerReturn(c) ==
    LET q == req[c]
        h == reg.routes[q.route].h
    IN
    /\ q.pc = "h"
    /\ q.k = Len(Prog(h).ops)
    /\ req' = [req EXCEPT ![c] =
                 IF HandlerOut(q) = "panic" THEN [q EXCEPT !.pc = "panic"]
                 ELSE nt_return(q, HandlerOut(q))]
    /\ UNCHANGED <<cfgvars, wrappers, pool>>

\* A middleware of the route's chain returns what its next returned.
MiddlewareReturn(c) ==
    LET q == req[c] IN
    /\ q.pc = "mw_out"
    /\ q.mi > 0
    /\ req' = [req EXCEPT ![c] =
                 [q EXCEPT !.mi = @ - 1, !.trace = Push(q, <<"out", Ms(q)[q.mi]>>)]]
    /\ UNCHANGED <<cfgvars, wrappers, pool>>

\* A `next` that hands an error of the chain that h did not return to the
\* error encoder.
next_discard_encode(q) ==
    IF q.ret # Nil /\ q.herr = Nil
    THEN [q EXCEPT !.ret = Nil, !.ene = @ + 1, !.wire = ene_Write(@), !.status = ErrorStatus]
    ELSE [q EXCEPT !.ret = Nil]

\* `_, _ = nt(c.Request.Context(), c.Request)`: the chain's result and error
\* are dropped.
next_discard(q) == [q EXCEPT !.ret = Nil]

\* `next` after the chain returned (its result and error dropped):
\* ctx.Reset(nil, nil); ctx.Context = nil; r.pool.Put(ctx).
RouteRelease(c) ==
    LET q == req[c]
        r == reg.routes[q.route].router
    IN
    /\ q.pc = "mw_out"
    /\ q.mi = 0
    /\ wrappers' = [wrappers EXCEPT ![q.inst] = RouteClear(@)]
    /\ pool' = [pool EXCEPT ![r] = PoolAfterPut(@, q.inst)]
    /\ req' = [req EXCEPT ![c] =
                 [next_discard(q) EXCEPT !.pc = AfterRoute(q), !.owns = FALSE, !.puts = @ + 1,
                                         !.trace = Push(q, <<"out", "route">>)]]
    /\ UNCHANGED cfgvars

\* An innermost step that never reports the status as an error.
gnext_err_never(status) == Nil

\* Middlewares' innermost step after c.Next(): an error when
\* c.Writer.Status() >= http.StatusBadRequest, nil otherwise.
gnext_err(status) == IF status >= StatusBadRequest THEN "unknown" ELSE Nil

GNextReturn(c) ==
    LET q == req[c] IN
    /\ q.pc = "gnext_out"
    /\ req' = [req EXCEPT ![c] = [q EXCEPT !.pc = "gmw_out", !.ret = gnext_err(q.status)]]
    /\ UNCHANGED <<cfgvars, wrappers, pool>>

\* A middleware of Middlewares' chain returns what its next returned.
GlobalMwReturn(c) ==
    LET q == req[c] IN
    /\ q.pc = "gmw_out"
    /\ q.gj > 0
    /\ req' = [req EXCEPT ![c] =
                 [q EXCEPT !.gj = @ - 1, !.trace = Push(q, <<"out", gmws[q.gj]>>)]]
    /\ UNCHANGED <<cfgvars, wrappers, pool>>

\* Middlewares after its chain returned: if err != nil, c.Error(err).  When
\* the chain never called c.Next(), gin goes on to the route's handler.
MiddlewaresReturn(c) ==
    LET q == req[c] IN
    /\ q.pc = "gmw_out"
    /\ q.gj = 0
    /\ req' = [req EXCEPT ![c] =
                 [q EXCEPT !.pc = IF q.inNext THEN "filter_out" ELSE "route",
                           !.ginErrs = IF q.ret # Nil THEN @ + 1 ELSE @,
                           !.ret = Nil,
                           !.trace = Push(q, <<"out", "mws">>)]]
    /\ UNCHANGED <<cfgvars, wrappers, pool>>

\* Server.filter returns: the deferred cancel() runs.
FilterReturn(c) ==
    LET q == req[c] IN
    /\ q.pc = "filter_out"
    /\ req' = [req EXCEPT ![c] =
                 [q EXCEPT !.pc = "gf_out", !.dctx = filter_exit(@, FALSE),
                           !.trace = Push(q, <<"out", "filter">>)]]
    /\ UNCHANGED <<cfgvars, wrappers, pool>>

\* A FilterFunc returns.
GlobalFilterReturn(c) ==
    LET q == req[c] IN
    /\ q.pc = "gf_out"
    /\ q.gi > 0
    /\ req' = [req EXCEPT ![c] =
                 [q EXCEPT !.gi = @ - 1, !.trace = Push(q, <<"out", ServerHandler[q.gi]>>)]]
    /\ UNCHANGED <<cfgvars, wrappers, pool>>

\* ServeHTTP returns.
Complete(c) ==
    LET q == req[c] IN
    /\ q.pc = "gf_out"
    /\ q.gi = 0
    /\ req' = [req EXCEPT ![c] = [q EXCEPT !.pc = "done", !.outcome = "ok"]]
    /\ UNCHANGED <<cfgvars, wrappers, pool>>

\* A panic unwinds the goroutine's stack up to net/http's recover: of the
\* frames on it only Server.filter has a deferred call.  The instance `next`
\* held is referenced by nothing afterwards.
PanicUnwind(c) ==
    LET q == req[c] IN
    /\ q.pc = "panic"
    /\ req' = [req EXCEPT ![c] =
                 [q EXCEPT !.pc = "done", !.outcome = "panic", !.owns = FALSE,
                           !.dctx = IF @.derived THEN filter_exit(@, TRUE) ELSE @]]
    /\ UNCHANGED <<cfgvars, wrappers, pool>>

\* The connection is ready for its next request; an instance that a panic
\* left unreferenced is garbage.
Recycle(c) ==
    LET q == req[c] IN
    /\ q.pc = "done"
    /\ wrappers' = IF q.outcome = "panic" /\ q.inst # 0 /\ q.inst \notin Owned
                   THEN [wrappers EXCEPT ![q.inst] = Unalloc] ELSE wrappers
    /\ req' = [req EXCEPT ![c] = IdleReq]
    /\ UNCHANGED <<cfgvars, pool>>

\* Time passes while the handler runs; only the derived context's deadline
\* reads the clock.
Tick(c) ==
    LET q == req[c] IN
    /\ q.pc = "h"
    /\ q.dctx.derived
    /\ q.dctx.hasDeadline
    /\ ~q.dctx.canceled
    /\ q.elapsed < MaxTicks
    /\ req' = [req EXCEPT ![c] = [q EXCEPT !.elapsed = @ + 1]]
    /\ UNCHANGED <<cfgvars, wrappers, pool>>

\* The context given to Start is canceled by its owner.
CancelBase ==
    /\ ~srv.ctxCanceled
    /\ srv' = [srv EXCEPT !.ctxCanceled = TRUE]
    /\ UNCHANGED <<timeout, filters, gmws, useMws, reg, live, wrappers, pool, req>>

Next ==
    \/ CancelBase
    \/ \E c \in Conns :
          \/ Begin(c)
          \/ GlobalFilterEnter(c)
          \/ FilterEnter(c)
          \/ MiddlewaresEnter(c)
          \/ GlobalMwEnter(c)
          \/ GNext(c)
          \/ NoRoute(c)
          \/ RouteEnter(c)
          \/ MiddlewareEnter(c)
          \/ HandlerCall(c)
          \/ HandlerOp(c)
          \/ HandlerReturn(c)
          \/ MiddlewareReturn(c)
          \/ RouteRelease(c)
          \/ GNextReturn(c)
          \/ GlobalMwReturn(c)
          \/ MiddlewaresReturn(c)
          \/ FilterReturn(c)
          \/ GlobalFilterReturn(c)
          \/ Complete(c)
          \/ PanicUnwind(c)
          \/ Recycle(c)
          \/ Tick(c)

Spec == Init /\ [][Next]_vars

\* The steps of a server with no Filter option and no Middlewares installed
\* and no timeout (the steps of those layers and of the clock are never
\* enabled then), its base context live.
NextConc ==
    \E c \in Conns :
          \/ Begin(c)
          \/ FilterEnter(c)
          \/ NoRoute(c)
          \/ RouteEnter(c)
          \/ MiddlewareEnter(c)
          \/ HandlerCall(c)
          \/ HandlerOp(c)
          \/ HandlerReturn(c)
          \/ MiddlewareReturn(c)
          \/ RouteRelease(c)
          \/ FilterReturn(c)
          \/ Complete(c)
          \/ PanicUnwind(c)
          \/ Recycle(c)

SpecConc == InitConc /\ [][NextConc]_vars

(* --------------------------- registration ----------------------------- *)

MwLists == {<<>>, <<"A">>, <<"B", "C">>}   \* middleware given to Route and Group
RouteMwLists == {<<>>, <<"C">>}            \* middleware given to Handle

\* srv.Route("/api", ms...)
Route ==
    /\ Len(reg.routers) < MaxRouters
    /\ \E ms \in MwLists : reg' = RegRoute(reg, <<"api">>, ms)
    /\ pool' = Append(pool, {})
    /\ UNCHANGED <<timeout, filters, gmws, useMws, live, wrappers, req, srv>>

\* r.Group("/v1", fs...)
Group ==
    /\ Len(reg.routers) < MaxRouters
    /\ \E p \in DOMAIN reg.routers : \E fs \in MwLists :
          reg' = RegGroup(reg, p, <<"v1">>, fs)
    /\ pool' = Append(pool, {})
    /\ UNCHANGED <<timeout, filters, gmws, useMws, live, wrappers, req, srv>>

\* r.GET("/ok/:id", ok, fs...)
Handle ==
    /\ Len(reg.routes) < MaxRoutes
    /\ \E r \in DOMAIN reg.routers : \E fs \in RouteMwLists :
          reg' = RegHandle(reg, r, <<"ok", ":id">>, "ok", fs)
    /\ UNCHANGED <<timeout, filters, gmws, useMws, live, wrappers, pool, req, srv>>

NextReg == Route \/ Group \/ Handle

SpecRouter == InitReg /\ [][NextReg]_vars

(* ------------------------------ lifecycle ----------------------------- *)

\* After NewServer, with or without the Listener option.
InitLife ==
    /\ timeout = 1
    /\ filters = <<>>
    /\ useMws = FALSE
    /\ gmws = <<>>
    /\ reg = EmptyReg
    /\ live = {}
    /\ wrappers = [i \in Insts |-> Unalloc]
    /\ pool = <<>>
    /\ req = [c \in Conns |-> IdleReq]
    /\ srv \in {NewSrv(NoLis), NewSrv(<<"given", 0>>)}

lifevars == <<timeout, filters, gmws, useMws, reg, live, wrappers, pool, req>>

\* srv.Endpoint(); net.Listen and host.Extract succeed or fail when called.
Endpoint ==
    /\ srv.epCalls < MaxEndpointCalls
    /\ \E listenOk, extractOk \in BOOLEAN :
          srv' = Server_Endpoint(srv, listenOk, extractOk)
    /\ UNCHANGED lifevars

\* srv.Start(ctx), while no Start is running.
Start ==
    /\ srv.phase # "serving"
    /\ srv.starts < MaxStarts
    /\ \E listenOk, extractOk \in BOOLEAN :
          srv' = Server_StartCall(srv, listenOk, extractOk)
    /\ UNCHANGED lifevars

\* Serve returns http.ErrServerClosed, and Start returns.
ServeClosed ==
    /\ srv.phase = "serving"
    /\ Serve_closed(srv)
    /\ srv' = Server_ServeReturn(srv, ErrServerClosed)
    /\ UNCHANGED lifevars

\* Serve fails on its listener (Accept returns a permanent error), and Start returns.
ServeFail ==
    /\ srv.phase = "serving"
    /\ ~srv.shut
    /\ srv' = Server_ServeReturn(srv, "accept")
    /\ UNCHANGED lifevars

\* srv.Stop(ctx): s.Shutdown(ctx).
Stop ==
    /\ ~srv.shut
    /\ srv' = [srv EXCEPT !.shut = TRUE]
    /\ UNCHANGED lifevars

NextLife == Endpoint \/ Start \/ ServeClosed \/ ServeFail \/ Stop \/ CancelBase

\* Serve runs on its own goroutine: once Shutdown was called it does return.
SpecLife == InitLife /\ [][NextLife]_vars /\ WF_vars(ServeClosed)

(* ----------------------------- properties ------------------------------ *)

HandlerReturned(q) == \E i \in DOMAIN q.trace : q.trace[i] = <<"out", "h">>
FilterEntered(q) == \E i \in DOMAIN q.trace : q.trace[i] = <<"in", "filter">>

\* Positions of a request whose route handler `next` is no longer running.
PostRoute == {"gnext_out", "gmw_out", "filter_out", "gf_out", "done"}

\* R ++ M ++ [h] of the route of request q, from the router and the route as registered.
ChainOf(q) ==
    LET rt == reg.routes[q.route]
    IN  reg.routers[rt.router].filters \o rt.filters \o <<"h">>

\* The entries and exits of the route's middleware and handler, in order.
RouteTrace(q) == SelectSeq(q.trace, LAMBDA e : e[2] \in MwNames \cup {"h"})

Ins(E, n) == [i \in 1..n |-> <<"in", E[i]>>]
Outs(E, n, m) == [i \in 1..(n - m) |-> <<"out", E[n + 1 - i]>>]

\* C1: a request on a route of a router with middleware R and route
\* middleware M enters r1..rk, m1..mj, then h, and leaves in the exact reverse
\* order: at every moment the entries are a prefix of R ++ M ++ [h] and the
\* exits are the reverse of the entered elements' tail; once h has returned
\* and `next` is over, the trace is the whole chain in and the whole chain out.
C1_ChainOrder ==
    \A c \in Conns :
        LET q == req[c] IN
        q.route # 0 =>
            LET E == ChainOf(q) IN
            /\ \E n \in 0..Len(E) : \E m \in 0..n :
                  RouteTrace(q) = Ins(E, n) \o Outs(E, n, m)
            /\ (HandlerReturned(q) /\ q.pc \in PostRoute) =>
                  RouteTrace(q) = Ins(E, Len(E)) \o Outs(E, Len(E), 0)

C1_Witness ==
    \E c \in Conns :
        /\ req[c].pc = "done"
        /\ req[c].herr = "err"
        /\ RouteTrace(req[c]) =
              << <<"in", "A">>, <<"in", "B">>, <<"in", "C">>, <<"in", "h">>,
                 <<"out", "h">>, <<"out", "C">>, <<"out", "B">>, <<"out", "A">> >>

\* Instance w holds nothing of connection c's request.
Forgot(w, c) == w.req.conn # c /\ w.res # c /\ w.ww # c /\ w.gin # c

\* C2: on every exit path of the chain (h returned nil, h or a middleware
\* returned an error, h or a middleware panicked) the Context the request
\* acquired has been reset to empty and put back into the pool.
C2_ReleasedOnEveryExit ==
    \A c \in Conns :
        LET q == req[c] IN
        (q.inst # 0 /\ q.pc \in PostRoute) =>
            (q.puts = 1 /\ Forgot(wrappers[q.inst], c))

\* The Result/Returns calls of handler h that reach the response encoder.
EncCalls(h) ==
    Cardinality({i \in DOMAIN Prog(h).ops :
                    Prog(h).ops[i] \in {"result", "resultfail", "resultempty", "returns"}})

\* C3 as stated: for every handled request exactly one of the response
\* encoder and the error encoder is invoked, once; when the handler returns
\* an error it is the error encoder and the response encoder is never invoked.
C3_ExactlyOneEncoder ==
    \A c \in Conns :
        LET q == req[c] IN
        HandlerReturned(q) =>
            /\ q.enc + q.ene = 1
            /\ q.herr # Nil => (q.ene = 1 /\ q.enc = 0)

\* C3 amended: the error encoder is invoked exactly once when the handler
\* returns an error and not at all otherwise (nor before the handler has
\* returned); the response encoder is invoked once for each Result call and
\* each Returns call with a nil error that the handler made, whatever the
\* handler then returns.
C3_EncodersFollowHandler ==
    \A c \in Conns :
        LET q == req[c] IN
        q.route # 0 =>
            /\ HandlerReturned(q) =>
                  /\ q.ene = IF q.herr # Nil THEN 1 ELSE 0
                  /\ q.enc = EncCalls(reg.routes[q.route].h)
            /\ ~HandlerReturned(q) => q.ene = 0

C3_Witness ==
    \E c \in Conns :
        /\ HandlerReturned(req[c])
        /\ reg.routes[req[c].route].h = "encfail"
        /\ req[c].enc = 1
        /\ req[c].ene = 1

\* C4: an instance sitting in a router's pool holds no request, response
\* writer, status-buffer writer or gin context, so what pool.Get hands out
\* carries nothing of an earlier request.
C4_PoolClean ==
    \A r \in DOMAIN pool : \A i \in pool[r] :
        /\ wrappers[i].req = NilReq
        /\ wrappers[i].res = 0
        /\ wrappers[i].ww = 0
        /\ wrappers[i].gin = 0

C4_Witness ==
    \E c \in Conns :
        /\ req[c].pc = "done"
        /\ req[c].enc = 1
        /\ req[c].puts = 1
        /\ req[c].inst \in pool[reg.routes[req[c].route].router]

\* C5: no two requests in flight hold the same instance; an instance a
\* request holds is in no pool; a request puts its instance back at most
\* once, and holds it no longer once it has.
C5_Exclusive ==
    /\ \A c, d \in Conns :
          (c # d /\ req[c].owns /\ req[d].owns) => req[c].inst # req[d].inst
    /\ \A c \in Conns : \A r \in DOMAIN pool :
          req[c].owns => req[c].inst \notin pool[r]
    /\ \A c \in Conns : req[c].puts <= 1 /\ (req[c].owns => req[c].puts = 0)

C5_Witness ==
    /\ req[1].owns /\ req[1].pc = "h"
    /\ req[2].owns /\ req[2].pc = "h"
    /\ req[1].inst # req[2].inst

\* C6: once the top-level filter has returned, or a panic has unwound
\* through it, the context it derived is canceled.
C6_CanceledOnExit ==
    \A c \in Conns :
        LET q == req[c] IN
        (q.dctx.derived /\ q.pc \in {"gf_out", "done"}) => q.dctx.canceled

C6_Witness ==
    \E c \in Conns :
        /\ req[c].pc = "done"
        /\ req[c].outcome = "panic"
        /\ req[c].dctx.derived
        /\ req[c].dctx.canceled

\* The request is inside the top-level filter.
InFilter(q) == q.dctx.derived /\ q.pc \notin {"gf_out", "done"}

\* C7 as stated: no deadline when the timeout is zero; for every other
\* timeout value the derived context is canceled once the timeout has
\* elapsed, and a handler observing Err() then sees it.
C7_DeadlineUnlessZero ==
    \A c \in Conns :
        LET q == req[c] IN
        InFilter(q) =>
            /\ timeout = 0 => ~q.dctx.hasDeadline
            /\ timeout # 0 =>
                  /\ q.dctx.hasDeadline
                  /\ q.elapsed >= timeout => DerivedErr(q.dctx, q.elapsed)
                  /\ \A i \in DOMAIN q.obs : q.obs[i].at >= timeout => q.obs[i].err

\* C7 amended: no deadline when the timeout is zero or negative; for every
\* positive timeout the derived context has that deadline and is canceled
\* once the timeout has elapsed, and a handler observing Err() on its
\* Context then sees it.
C7_DeadlineIffPositive ==
    \A c \in Conns :
        LET q == req[c] IN
        InFilter(q) =>
            /\ timeout <= 0 => ~q.dctx.hasDeadline
            /\ timeout > 0 =>
                  /\ q.dctx.hasDeadline
                  /\ q.dctx.deadline = timeout
                  /\ q.elapsed >= timeout => DerivedErr(q.dctx, q.elapsed)
                  /\ \A i \in DOMAIN q.obs : q.obs[i].at >= timeout => q.obs[i].err

C7_Witness ==
    \E c \in Conns :
        /\ req[c].pc = "h"
        /\ timeout > 0
        /\ \E i \in DOMAIN req[c].obs : req[c].obs[i].at >= timeout /\ req[c].obs[i].err

\* The record was attached before position i of the trace.
AttachedBefore(q, i) == \E j \in 1..(i - 1) : q.trace[j] = <<"in", "filter">>

FilterNames == {"F1", "F2"}
Downstream == MwNames \cup {"mws", "G", "route", "h"}

\* C8 as stated: the record is created and attached exactly once per request,
\* before any global filter, middleware or handler executes.
C8_AttachedBeforeAll ==
    \A c \in Conns :
        LET q == req[c] IN
        /\ q.pc = "done" => q.ntr = 1
        /\ \A i \in DOMAIN q.trace :
              (q.trace[i][1] = "in" /\ q.trace[i][2] \in FilterNames \cup Downstream)
                  => AttachedBefore(q, i)

\* C8 amended: a request that reaches the engine has its record created and
\* attached exactly once, by the top-level filter, before the Middlewares
\* wrapper, any router or route middleware and the handler execute, and the
\* handler's Context carries it; the filters of the Filter option wrap the
\* engine and are entered before the record exists (a request one of them
\* answers without calling next gets no record).
C8_AttachedBeforeDownstream ==
    \A c \in Conns :
        LET q == req[c] IN
        /\ q.ntr = IF FilterEntered(q) THEN 1 ELSE 0
        /\ q.owns => "tr" \in wrappers[q.inst].req.ctx
        /\ \A i \in DOMAIN q.trace :
              /\ (q.trace[i][1] = "in" /\ q.trace[i][2] \in Downstream)
                    => AttachedBefore(q, i)
              /\ (q.trace[i][1] = "in" /\ q.trace[i][2] \in FilterNames)
                    => ~AttachedBefore(q, i)

C8_Witness ==
    \E c \in Conns :
        /\ req[c].pc = "h"
        /\ req[c].ntr = 1
        /\ useMws
        /\ Len(req[c].trace) > 0
        /\ req[c].trace[1] = <<"in", "F1">>

\* The operation the record of request q holds when its handler calls Middleware.
ExpectedOp(q) ==
    IF reg.routes[q.route].h = "setsel" THEN CustomOp ELSE FullPath(reg, q.route)

\* C9: Context.Middleware matches on the operation currently recorded in the
\* request's one transport record (the template the filter recorded, or what
\* SetOperation wrote since); the URL path is the key only when the request
\* carries no record.
C9_MatchKey ==
    \A c \in Conns :
        LET q == req[c] IN
        \A i \in DOMAIN q.matched :
            /\ q.ntr = 1
            /\ q.opAt[i].hasTr
                  => (q.matched[i] = q.opAt[i].op /\ q.matched[i] = ExpectedOp(q))
            /\ ~q.opAt[i].hasTr => q.matched[i] = UrlPath(reg, q.route)

C9_Witness ==
    \E c \in Conns :
        /\ req[c].matched = <<CustomOp>>
        /\ reg.routes[req[c].route].h = "setsel"
        /\ UrlPath(reg, req[c].route) # FullPath(reg, req[c].route)

RECURSIVE Lineage(_, _)
\* The middleware given to Route and then to each Group on the way to router i.
Lineage(g, i) ==
    IF g.parent[i] = 0 THEN g.given[i] ELSE Lineage(g, g.parent[i]) \o g.given[i]

\* C10: the chain of a route is the middleware given to Route, then to each
\* Group from the outermost to the innermost, then the route's own.
C10_GroupInheritance ==
    \A k \in DOMAIN reg.routes :
        RouteMs(reg, reg.routes[k]) =
            Lineage(reg, reg.routes[k].router) \o reg.routes[k].filters

C10_Witness ==
    \E k \in DOMAIN reg.routes :
        LET r == reg.routes[k].router IN
        /\ reg.parent[r] # 0
        /\ reg.parent[reg.parent[r]] # 0
        /\ RouteMs(reg, reg.routes[k]) = <<"A", "B", "C", "A", "C">>


\* C11: Router.Group (and Handle on a child) leaves every existing router
\* as it was: no step changes the prefix or the middleware list of a router
\* that already exists, so a parent keeps its own after any number of sibling
\* groups, and every router's list is exactly what Route and the Groups on its
\* own lineage were given (nothing of a sibling or a child).
C11_GroupFrame ==
    /\ [][\A i \in DOMAIN reg.routers : reg'.routers[i] = reg.routers[i]]_vars
    /\ [](\A i \in DOMAIN reg.routers :
            /\ reg.routers[i].filters = Lineage(reg, i)
            /\ reg.routers[i].prefix =
                  IF reg.parent[i] = 0 THEN <<"api">>
                  ELSE reg.routers[reg.parent[i]].prefix \o <<"v1">>)

C11_Witness ==
    /\ Len(reg.routers) = 3
    /\ reg.parent = <<0, 1, 1>>
    /\ reg.given[1] = <<"A">>
    /\ reg.given[2] = <<"B", "C">>
    /\ reg.given[3] = <<>>
    /\ reg.routers[1].filters = <<"A">>
    /\ Len(reg.routes) = 1
    /\ reg.routes[1].router = 2
    /\ reg.routes[1].filters = <<"C">>


\* The Server was given its listener by the Listener option.
IsGiven(s) == s.lis # NoLis /\ s.lis[1] = "given"

\* C12: over any sequence of Endpoint() and Start() calls net.Listen binds a
\* listener at most once, and never when the Listener option supplied one;
\* all successful Endpoint() calls returned one and the same URL, the stored
\* endpoint.
C12_EndpointIdempotent ==
    /\ srv.binds <= 1
    /\ IsGiven(srv) => srv.binds = 0
    /\ Cardinality(srv.urls) <= 1
    /\ srv.urls # {} => srv.urls = {srv.endpoint}

C12_Witness ==
    /\ srv.epCalls = MaxEndpointCalls
    /\ srv.starts >= 1
    /\ srv.err = Nil
    /\ srv.binds = 1
    /\ srv.urls = {<<"http", <<"bound", 1>>>>}

\* C13 as stated: once the context given to Start is canceled, or once Stop
\* is called, a running Start eventually returns.
C13_CancelOrStopEndsStart ==
    (srv.phase = "serving" /\ (srv.ctxCanceled \/ srv.shut)) ~> (srv.phase = "returned")

\* C13 amended: once Stop is called, a running Start eventually returns.
\* (Canceling the context given to Start does not end Serve.)
C13_StopEndsStart ==
    (srv.phase = "serving" /\ srv.shut) ~> (srv.phase = "returned")

C13_Witness ==
    /\ srv.phase = "returned"
    /\ srv.served
    /\ srv.shut
    /\ srv.serveErr = ErrServerClosed
    /\ ~srv.ctxCanceled

\* C14: a Start that served returns nil when Serve ended with
\* http.ErrServerClosed and Serve's error unchanged otherwise; a Start whose
\* listenAndEndpoint returned an error returns that error and never serves.
C14_StartResult ==
    /\ (srv.phase = "returned" /\ srv.served) =>
          /\ srv.laeRet = Nil
          /\ srv.serveErr # Nil
          /\ srv.startRet = IF srv.serveErr = ErrServerClosed THEN Nil ELSE srv.serveErr
    /\ (srv.phase = "returned" /\ ~srv.served) =>
          /\ srv.laeRet # Nil
          /\ srv.startRet = srv.laeRet
          /\ srv.serveErr = Nil
    /\ srv.phase = "serving" => (srv.served /\ srv.laeRet = Nil)

C14_Witness ==
    /\ srv.phase = "returned"
    /\ srv.served
    /\ srv.starts = 2
    /\ srv.serveErr = ErrServerClosed
    /\ srv.startRet = Nil

\* C21: a call to Endpoint() or Start() that returns an error of
\* listenAndEndpoint leaves s.err set; s.err, once set, is never cleared; and
\* every Endpoint() or Start() call made while s.err is set returns a non-nil
\* error (Start without serving), also when that call itself binds the
\* listener and resolves the endpoint.
C21_StickyError ==
    [][ /\ srv.err # Nil => srv'.err # Nil
        /\ srv'.epCalls > srv.epCalls =>
              /\ srv'.epRet # Nil => srv'.err # Nil
              /\ srv.err # Nil => srv'.epRet # Nil
        /\ srv'.starts > srv.starts =>
              /\ srv'.laeRet # Nil => srv'.err # Nil
              /\ srv.err # Nil => /\ srv'.startRet # Nil
                                  /\ srv'.phase = "returned"
                                  /\ ~srv'.served ]_vars

\* net.Listen failed in the first Endpoint(); the second bound the listener
\* and resolved the endpoint, and returned the stored error all the same; so
\* did a Start() after it.
C21_Witness ==
    /\ srv.err = "listen"
    /\ srv.binds = 1
    /\ srv.endpoint = <<"http", <<"bound", 1>>>>
    /\ srv.epCalls = 2
    /\ srv.epRet = "listen"
    /\ srv.urls = {}
    /\ srv.starts = 1
    /\ srv.startRet = "listen"

\* C15: once the context given to Start is canceled, the context of every
\* request inside the top-level filter (in flight at that moment, or accepted
\* later) reports cancellation, to the handler's Context as well; the
\* cancellation itself changes nothing of any request: handlers already
\* running go on.
C15_BaseCancelPropagates ==
    /\ [](\A c \in Conns :
            LET q == req[c] IN
            /\ (InFilter(q) /\ srv.ctxCanceled) => CtxErr(q.request, q.dctx, q.elapsed)
            /\ (InFilter(q) /\ srv.ctxCanceled /\ q.owns)
                  => wrapper_Err(wrappers[q.inst], q.dctx, q.elapsed)
            /\ \A i \in DOMAIN q.obs : q.obs[i].base => q.obs[i].err)
    /\ [][srv'.ctxCanceled # srv.ctxCanceled
            => (req' = req /\ wrappers' = wrappers /\ pool' = pool)]_vars

C15_Witness ==
    \E c \in Conns :
        /\ req[c].pc = "done"
        /\ req[c].outcome = "ok"
        /\ HandlerReturned(req[c])
        /\ timeout = 0
        /\ Len(req[c].obs) = 2
        /\ ~req[c].obs[1].base /\ ~req[c].obs[1].err
        /\ req[c].obs[2].base /\ req[c].obs[2].err


\* Positions inside the Middlewares wrapper itself (not in what c.Next() runs).
InMiddlewares == {"mws", "gmw", "gnext_out", "gmw_out"}

\* C16: the error travelling back through Middlewares' chain from its
\* innermost step is non-nil exactly when the status left by c.Next() is
\* >= 400; Middlewares records it with c.Error once and no step of the
\* wrapper calls an encoder or writes to the response, so a request whose
\* route error was encoded by the route has exactly that one encoding.
C16_StatusError ==
    /\ [](\A c \in Conns :
            LET q == req[c] IN
            /\ (q.pc = "gmw_out" /\ q.inNext)
                  => (q.ret # Nil <=> q.status >= StatusBadRequest)
            /\ (q.pc \in {"filter_out", "gf_out"} /\ q.inNext)
                  => q.ginErrs = IF q.status >= StatusBadRequest THEN 1 ELSE 0
            /\ q.ene <= 1)
    /\ [][\A c \in Conns :
            req[c].pc \in InMiddlewares =>
                /\ req'[c].wire = req[c].wire
                /\ req'[c].status = req[c].status
                /\ req'[c].enc = req[c].enc
                /\ req'[c].ene = req[c].ene]_vars

C16_Witness ==
    \E c \in Conns :
        /\ req[c].pc = "done"
        /\ req[c].inNext
        /\ req[c].herr = "err"
        /\ req[c].ene = 1
        /\ req[c].ginErrs = 1
        /\ req[c].wire = ene_Write(<<>>)


\* The entries and exits of the global filters and of the top-level filter.
FilterTrace(q) == SelectSeq(q.trace, LAMBDA e : e[2] \in FilterNames \cup {"filter"})

\* Filter lists of up to three filters.
FilterSeqs == UNION {[1..n -> {"F1", "F2", "F3"}] : n \in 0..3}

\* C17: FilterChain(f1..fn)(h) is f1(f2(...fn(h))): the layers are the
\* filters in registration order, f1 outermost, then h, and h alone for no
\* filters; the Server's handler is that chain over its configured filters
\* around the engine, so a request enters f1, ..., fn, then the engine (its
\* top-level filter first), and leaves in the reverse order.
C17_FilterChainOrder ==
    /\ \A fs \in FilterSeqs : FilterChain(fs, <<"h">>) = fs \o <<"h">>
    /\ FilterChain(<<>>, <<"h">>) = <<"h">>
    /\ ServerHandler = filters \o <<"engine">>
    /\ \A c \in Conns :
          LET q == req[c]
              E == filters \o <<"filter">>
          IN  /\ \E n \in 0..Len(E) : \E m \in 0..n :
                    FilterTrace(q) = Ins(E, n) \o Outs(E, n, m)
              /\ (q.pc = "done" /\ q.outcome = "ok" /\ FilterEntered(q))
                    => FilterTrace(q) = Ins(E, Len(E)) \o Outs(E, Len(E), 0)

C17_Witness ==
    \E c \in Conns :
        /\ req[c].pc = "done"
        /\ req[c].outcome = "ok"
        /\ FilterTrace(req[c]) =
              << <<"in", "F1">>, <<"in", "F2">>, <<"in", "filter">>,
                 <<"out", "filter">>, <<"out", "F2">>, <<"out", "F1">> >>


\* C18: every body write that reaches the underlying response writer is
\* preceded by a status write, and for every writing call that returned nil
\* (JSON, XML, String, Blob, Stream, Result, Returns) the status it asked
\* for reached the underlying response writer.
C18_StatusReachesWriter ==
    \A c \in Conns :
        LET q == req[c] IN
        /\ \A j \in DOMAIN q.wire :
              q.wire[j][1] = "body" => (j > 1 /\ q.wire[j - 1][1] = "hdr")
        /\ \A i \in DOMAIN q.asked :
              \E j \in DOMAIN q.wire : q.wire[j] = <<"hdr", q.asked[i]>>


HandlerEntered(q) == \E i \in DOMAIN q.trace : q.trace[i] = <<"in", "h">>

\* `next` returned without h having been called: a middleware of the route's
\* chain returned without calling its next.
ShortCircuited(q) ==
    q.inst # 0 /\ q.pc \in PostRoute /\ q.outcome # "panic" /\ ~HandlerEntered(q)

\* C19: the error encoder runs only in the step in which h returns, and only
\* when h returns an error; when a middleware of the route's chain returns
\* without calling next, h and both encoders never run and nothing is written,
\* the chain's error goes no further than `next`, and the Context is reset and
\* back in the pool.
C19_EncoderOnlyAtTerminal ==
    /\ [](\A c \in Conns :
            LET q == req[c] IN
            /\ q.ene > 0 => (HandlerReturned(q) /\ q.herr # Nil)
            /\ ShortCircuited(q) =>
                  /\ q.enc = 0 /\ q.ene = 0 /\ q.wire = <<>> /\ q.herr = Nil
                  /\ q.puts = 1 /\ Forgot(wrappers[q.inst], c)
            /\ (q.inst # 0 /\ q.pc \in {"gnext_out", "filter_out"}) => q.ret = Nil)
    /\ [][\A c \in Conns :
            req'[c].ene > req[c].ene => (req[c].pc = "h" /\ req'[c].herr # Nil)]_vars

C19_Witness ==
    \E c \in Conns :
        /\ req[c].pc = "done"
        /\ req[c].outcome = "ok"
        /\ ShortCircuited(req[c])
        /\ RouteTrace(req[c]) =
              << <<"in", "A">>, <<"in", "B">>, <<"out", "B">>, <<"out", "A">> >>
        /\ req[c].inst \in pool[reg.routes[req[c].route].router]


\* C20: whatever the handler observes through its Context comes from the
\* context of the request as it was when the route was entered (with the
\* top-level filter's derived context and transport record), held by the
\* Context from its reset on; nothing that a middleware of the route's chain
\* added to the context it passed to next is visible to the handler.
C20_HandlerContext ==
    \A c \in Conns :
        LET q == req[c] IN
        /\ q.owns => wrappers[q.inst].req = q.request
        /\ \A i \in DOMAIN q.obs :
              /\ q.obs[i].seen = q.request.ctx
              /\ {"derived", "tr"} \subseteq q.obs[i].seen
              /\ q.obs[i].seen \cap MwNames = {}

C20_Witness ==
    \E c \in Conns :
        /\ req[c].pc = "h"
        /\ Len(req[c].obs) > 0
        /\ {"A", "B", "C"} \subseteq req[c].cc
        /\ req[c].obs[1].seen \cap MwNames = {}

=============================================================================
